---------------------------- MODULE Spec2Model ----------------------------
(***************************************************************************)
(* The UDP tracker client of the Torrent repository: getPeers and udpSend  *)
(* of src/src/tracker.js, driven by download.js.                           *)
(*                                                                         *)
(* src/src/tracker.js holds two modules one after the other: the tracker   *)
(* client (lines 1-240, requiring dgram, buffer, url and crypto) and the   *)
(* peer message builders (lines 242-404, with their own "use strict" and   *)
(* requires).  The tracker client is modelled as its own module.           *)
(*                                                                         *)
(* One getPeers call is modelled: the connect request handed to udpSend,   *)
(* the send completion callback, the retransmission timer, and the         *)
(* "message" listeners of the socket (getPeers' listener first, then the   *)
(* once-listeners udpSend registered, in registration order).  An          *)
(* exception thrown by a listener is not caught anywhere: it leaves the    *)
(* event loop as an uncaught exception and the process ends.               *)
(***************************************************************************)
EXTENDS Integers, Sequences, FiniteSets

(* ------------------------------ bounds -------------------------------- *)

\* crypto.randomBytes(4) draws the transaction id from 0..MaxTxId.
MaxTxId == 2

\* At most this many datagrams are handled without ending the process.
MaxDeliveries == 2

(* ------------------------- program constants -------------------------- *)

\* udpSend: const timeout = 15 (seconds).
timeout == 15

\* udpSend: maxRetries = 5 (the default; getPeers passes none for connect).
maxRetries == 5

\* buildConnReq: the two halves of the protocol id 0x41727101980.
ProtocolIdHi == 1047
ProtocolIdLo == 655366528

\* The tracker's address, urlParse(torrent.announce): one fixed url.
TrackerAddr == [hostname |-> "tracker", port |-> "announce-port"]

(* ------------------------------ buffers ------------------------------- *)

\* Buffer.alloc(n): n zero bytes (1-based here, offset o is index o + 1).
Alloc(n) == [i \in 1..n |-> 0]

\* The big-endian bytes of a 32-bit unsigned value.
Bytes32(v) ==
    << (v \div 16777216) % 256, (v \div 65536) % 256, (v \div 256) % 256, v % 256 >>

\* buf.writeUInt32BE(v, off), and src.copy(buf, off) for a 4-byte src.
WriteUInt32BE(buf, v, off) ==
    [i \in DOMAIN buf |->
        IF i \in (off + 1)..(off + 4) THEN Bytes32(v)[i - off] ELSE buf[i]]

\* buf.readUInt32BE(off).
ReadUInt32BE(buf, off) ==
    buf[off + 1] * 16777216 + buf[off + 2] * 65536 + buf[off + 3] * 256 + buf[off + 4]

\* buildConnReq with crypto.randomBytes(4) having the value tx.
buildConnReq(tx) ==
    LET b0 == Alloc(16)
        b1 == WriteUInt32BE(b0, ProtocolIdHi, 0)
        b2 == WriteUInt32BE(b1, ProtocolIdLo, 4)
        b3 == WriteUInt32BE(b2, 0, 8)
    IN  WriteUInt32BE(b3, tx, 12)

TxIds == 0..MaxTxId

(* ----------------------------- datagrams ------------------------------ *)
\* A received datagram, by its length in bytes and the fields the handlers
\* read: action (bytes 0..3) and transaction_id (bytes 4..7).  A field the
\* datagram is too short to hold is written 0.  Action 3 is the tracker's
\* error packet.
Lengths == {3, 6, 12, 16, 20, 23, 26}
Actions == {0, 1, 3}

Datagrams ==
    { d \in [len : Lengths, action : Actions, txid : TxIds] :
        /\ (d.len < 4 => d.action = 0)
        /\ (d.len < 8 => d.txid = 0) }

NoMsg == [len |-> 0, action |-> 0, txid |-> 0]

Ok(v) == [ok |-> TRUE, val |-> v]
Throw(site) == [ok |-> FALSE, val |-> site]

\* respType: readUInt32BE(0) throws a RangeError on fewer than 4 bytes;
\* an action other than 0 and 1 throws Error("Unhandled Response type").
respType(d) ==
    IF d.len < 4 THEN Throw("respType")
    ELSE IF d.action = 0 THEN Ok("connect")
    ELSE IF d.action = 1 THEN Ok("announce")
    ELSE Throw("respType")

\* parseConnResp: reads action at 0 and transaction_id at 4 (a RangeError
\* on fewer than 8 bytes); connectionId is resp.slice(8), whatever is left.
\* Nothing is compared or checked.
parseConnResp(d) ==
    IF d.len < 8 THEN Throw("parseConnResp")
    ELSE Ok([action |-> d.action, transactionId |-> d.txid,
             connectionIdLen |-> d.len - 8])

\* buildAnnounceReq: after the buffer is allocated and the connection id,
\* the action and the transaction id are written, line 162 evaluates
\* torrentParser, which the tracker module never declares (and util of line
\* 164 is declared nowhere, torrent.Parser of line 168 is undefined, and
\* infoHash itself uses the undeclared bencode): it throws on every call.
buildAnnounceReq(connResp) == Throw("buildAnnounceReq")

\* parseAnnounceResp: reads 32-bit fields at 0, 4, 8 and 12 (a RangeError on
\* fewer than 16 bytes), cuts resp.slice(20) into groups of 6 bytes, the last
\* one possibly shorter, and reads a 16-bit port at offset 4 of each group
\* (a RangeError on a group shorter than 6 bytes).
parseAnnounceResp(d) ==
    IF d.len < 16 THEN Throw("parseAnnounceResp")
    ELSE LET rest == IF d.len > 20 THEN d.len - 20 ELSE 0
             groups == (rest + 5) \div 6
             lastLen == rest - 6 * (groups - 1)
         IN  IF groups > 0 /\ lastLen < 6 THEN Throw("parseAnnounceResp")
             ELSE Ok([action |-> d.action, transactionId |-> d.txid,
                      peers |-> groups])

(* ------------------------------- state -------------------------------- *)
VARIABLES
    pc,             \* "idle" before getPeers is called, "running" after
    message,        \* udpSend's message: the connect request buffer
    retryCount,     \* udpSend's retryCount
    inFlight,       \* socket.send calls whose callback has not run yet
    timers,         \* armed setTimeout timers: [id, delay] (delay in ms)
    onceListeners,  \* timer ids held by the registered once("message") listeners
    wire,           \* every datagram handed to socket.send, in order
    sendFailed,     \* "Error sending UDP message" was logged
    exhausted,      \* "Max retries reached. UDP message failed." was logged
    announceCalls,  \* calls of buildAnnounceReq (line 20)
    delivered,      \* the calls of getPeers' callback: [txid, peers]
    crashed,        \* "" or the function whose exception ended the process
    lastMsg,        \* the datagram the "message" listeners last got
    dlpc,           \* download.js: "off", "waiting" for the peers, "opened"
    peers,          \* download.js: the peer list the callback is called with
    sockets,        \* download.js: the net.Socket of each download(peer) call
    events,         \* download.js: socket events handled so far
    call,           \* the builder or parser applied, with its arguments
    result          \* what that call returned or threw

trackerVars ==
    << pc, message, retryCount, inFlight, timers, onceListeners, wire,
       sendFailed, exhausted, announceCalls, delivered, lastMsg >>

dlVars == << dlpc, peers, sockets, events >>

pureVars == << call, result >>

vars == << trackerVars, crashed, dlVars, pureVars >>

NoCall == [fn |-> "none"]

\* No peer list was delivered and no socket exists.
DlOff == dlpc = "off" /\ peers = << >> /\ sockets = << >> /\ events = 0

\* No builder or parser is under test.
PureOff == call = NoCall /\ result = NoCall

TrackerIdle ==
    /\ pc = "idle"
    /\ message = << >>
    /\ retryCount = 0
    /\ inFlight = 0
    /\ timers = {}
    /\ onceListeners = {}
    /\ wire = << >>
    /\ sendFailed = FALSE
    /\ exhausted = FALSE
    /\ announceCalls = 0
    /\ delivered = << >>
    /\ crashed = ""
    /\ lastMsg = NoMsg

Init == TrackerIdle /\ DlOff /\ PureOff

Alive == pc = "running" /\ crashed = ""

(* ------------------------------ udpSend ------------------------------- *)

\* A linear backoff in place of the exponential one (2 * retryCount for
\* Math.pow(2, retryCount)).
TimeoutMsLinear(n) == timeout * (2 * n) * 1000

\* The wait armed after a send, in milliseconds:
\* timeout * Math.pow(2, retryCount) * 1000.
TimeoutMs(n) == timeout * (2 ^ n) * 1000

\* sendMessage: socket.send(message, 0, message.length, url.port, url.hostname, cb)
sendMessage(m) ==
    /\ wire' = Append(wire, [msg |-> m, hostname |-> TrackerAddr.hostname,
                             port |-> TrackerAddr.port])
    /\ inFlight' = inFlight + 1

\* getPeers: creates the socket, sends the connect request through udpSend
\* (retryCount = 0, first sendMessage) and registers the "message" listener.
getPeers ==
    /\ pc = "idle"
    /\ \E tx \in TxIds :
        /\ message' = buildConnReq(tx)
        /\ sendMessage(message')
    /\ pc' = "running"
    /\ retryCount' = 0
    /\ UNCHANGED << timers, onceListeners, sendFailed, exhausted,
                    announceCalls, delivered, crashed, lastMsg >>
    /\ UNCHANGED << dlVars, pureVars >>

\* The callback of socket.send: on an error it logs and returns; otherwise
\* it arms the timer with the current retryCount and registers a
\* once("message") listener that holds the timer's id.
sendCallback ==
    /\ Alive
    /\ inFlight > 0
    /\ inFlight' = inFlight - 1
    /\ \E err \in BOOLEAN :
        IF err
        THEN /\ sendFailed' = TRUE
             /\ UNCHANGED << timers, onceListeners >>
        ELSE /\ timers' = timers \cup
                    {[id |-> Len(wire) - 1, delay |-> TimeoutMs(retryCount)]}
             /\ onceListeners' = onceListeners \cup {Len(wire) - 1}
             /\ UNCHANGED sendFailed
    /\ UNCHANGED << pc, message, retryCount, wire, exhausted, announceCalls,
                    delivered, crashed, lastMsg >>
    /\ UNCHANGED << dlVars, pureVars >>

\* The setTimeout callback with the limit off by one (retryCount <= maxRetries).
timerFiresOffByOne ==
    /\ Alive
    /\ \E t \in timers :
        /\ timers' = timers \ {t}
        /\ IF retryCount <= maxRetries
           THEN /\ retryCount' = retryCount + 1
                /\ sendMessage(message)
                /\ UNCHANGED exhausted
           ELSE /\ exhausted' = TRUE
                /\ UNCHANGED << retryCount, wire, inFlight >>
    /\ UNCHANGED << pc, message, onceListeners, sendFailed, announceCalls,
                    delivered, crashed, lastMsg >>
    /\ UNCHANGED << dlVars, pureVars >>

\* The setTimeout callback: retry while retryCount < maxRetries, else log.
timerFires ==
    /\ Alive
    /\ \E t \in timers :
        /\ timers' = timers \ {t}
        /\ IF retryCount < maxRetries
           THEN /\ retryCount' = retryCount + 1
                /\ sendMessage(message)
                /\ UNCHANGED exhausted
           ELSE /\ exhausted' = TRUE
                /\ UNCHANGED << retryCount, wire, inFlight >>
    /\ UNCHANGED << pc, message, onceListeners, sendFailed, announceCalls,
                    delivered, crashed, lastMsg >>
    /\ UNCHANGED << dlVars, pureVars >>

(* ------------------------ the "message" event ------------------------- *)

\* The once-listeners of udpSend run after getPeers' listener returned:
\* each clears the timer it holds and is removed.
onceListenersRun ==
    /\ timers' = { t \in timers : t.id \notin onceListeners }
    /\ onceListeners' = {}

\* The exception of `site` leaves the listener: the process ends, the
\* remaining listeners do not run.
uncaught(site) ==
    /\ crashed' = site
    /\ UNCHANGED << timers, onceListeners, delivered >>

\* A datagram arrives on the socket: getPeers' listener, then udpSend's.
onMessage(d) ==
    /\ Alive
    /\ Len(delivered) < MaxDeliveries
    /\ lastMsg' = d
    /\ LET type == respType(d) IN
       IF ~type.ok
       THEN uncaught(type.val) /\ UNCHANGED announceCalls
       ELSE IF type.val = "connect"
       THEN LET connResp == parseConnResp(d) IN
            IF ~connResp.ok
            THEN uncaught(connResp.val) /\ UNCHANGED announceCalls
            ELSE /\ announceCalls' = announceCalls + 1
                 /\ uncaught(buildAnnounceReq(connResp.val).val)
       ELSE LET announceResp == parseAnnounceResp(d) IN
            IF ~announceResp.ok
            THEN uncaught(announceResp.val) /\ UNCHANGED announceCalls
            ELSE /\ delivered' = Append(delivered,
                        [txid |-> announceResp.val.transactionId,
                         peers |-> announceResp.val.peers])
                 /\ onceListenersRun
                 /\ UNCHANGED << crashed, announceCalls >>
    /\ UNCHANGED << pc, message, retryCount, inFlight, wire, sendFailed,
                    exhausted >>
    /\ UNCHANGED << dlVars, pureVars >>

receive == \E d \in Datagrams : onMessage(d)

Next == getPeers \/ sendCallback \/ timerFires \/ receive

Spec == Init /\ [][Next]_vars

(* ------------------------ reading the state --------------------------- *)

\* The transaction id written into the connect request (bytes 12..15).
ConnTxid == ReadUInt32BE(message, 12)

\* The datagrams on the wire that are announce requests (action 1 at 8..11).
AnnounceReqs == { i \in DOMAIN wire : ReadUInt32BE(wire[i].msg, 8) = 1 }

\* A step in which the "message" listeners handled the datagram lastMsg'.
HandledStep == crashed' # crashed \/ delivered' # delivered

\* The response the connect request waits for.
MatchingConnResp(d) == d.len = 16 /\ d.action = 0 /\ d.txid = ConnTxid

\* A datagram with no action field or an action other than 0 and 1.
Malformed(d) == d # NoMsg /\ (d.len < 4 \/ d.action \notin {0, 1})

(* ------------------------------ claims -------------------------------- *)

\* C1: a 16-byte connect response (action 0) whose transaction_id differs
\* from the one in the connect request is rejected: handling it neither
\* calls buildAnnounceReq nor changes the session in any other way.
C1_MismatchedConnectRejected ==
    [][ (HandledStep /\ lastMsg'.len = 16 /\ lastMsg'.action = 0
            /\ lastMsg'.txid # ConnTxid)
        => (announceCalls' = announceCalls /\ crashed' = crashed) ]_vars

\* C2: an announce response (action 1) is accepted only if its
\* transaction_id is that of an announce request that was sent; otherwise
\* the callback is not invoked.
C2_AnnounceTxidChecked ==
    [][ (HandledStep /\ lastMsg'.len >= 8 /\ lastMsg'.action = 1
            /\ ~ \E i \in AnnounceReqs :
                    ReadUInt32BE(wire[i].msg, 12) = lastMsg'.txid)
        => delivered' = delivered ]_vars

\* C3: a received datagram that is not the matching response leaves the
\* armed retransmission timers armed.
C3_MismatchKeepsTimer ==
    [][ (HandledStep /\ ~ MatchingConnResp(lastMsg')) => timers' = timers ]_vars

\* C4: the timer armed after the n-th transmission (n from 0) waits
\* 15 * 2^n seconds, and every transmission is the byte-identical request
\* to the same address.
C4_BackoffAndIdenticalResend ==
    /\ \A t \in timers : t.delay = (15 * 2 ^ t.id) * 1000
    /\ \A i \in DOMAIN wire : wire[i] = wire[1]

\* C4 witness: the fourth transmission (n = 3) is out and its timer waits
\* 120 seconds.
C4_Witness ==
    /\ Len(wire) = 4
    /\ [id |-> 3, delay |-> 120000] \in timers
    /\ lastMsg = NoMsg

\* C5: when the tracker never answers, once the retries are exhausted the
\* caller has been told (the only way to the caller is its callback).
C5_TimeoutSurfaced ==
    (exhausted /\ lastMsg = NoMsg) => Len(delivered) > 0

\* C6: the announce phase runs: once a connect response was parsed and the
\* announce request is built from it, that request is handed to the socket
\* under a retry budget of its own.
C6_AnnouncePhaseRetries ==
    announceCalls > 0 => AnnounceReqs # {}

\* C7: the callback is invoked only in ANNOUNCING, that is only after an
\* announce request was sent.
C7_DeliveryOnlyWhenAnnouncing ==
    Len(delivered) > 0 => (announceCalls > 0 /\ AnnounceReqs # {})

\* C8: one discovery attempt invokes the callback at most once.
C8_DeliveredOnce ==
    Len(delivered) <= 1

\* C9: handling a malformed datagram never ends the process with an
\* uncaught exception.
C9_MalformedIsSessionLocal ==
    Malformed(lastMsg) => crashed = ""

\* C10: a datagram with action 0 whose length is not 16 bytes is not acted
\* on: buildAnnounceReq is not called for it.
C10_ConnectRespLength ==
    [][ (HandledStep /\ lastMsg'.len >= 4 /\ lastMsg'.action = 0
            /\ lastMsg'.len # 16)
        => announceCalls' = announceCalls ]_vars

(* ---------------------------- download.js ----------------------------- *)
(* The callback download.js gives getPeers: peers.forEach(download).  Each *)
(* download(peer) creates a net.Socket, registers console.log for "error", *)
(* calls connect with an empty callback and registers an empty "data"      *)
(* listener.  The tracker's variables stay as before getPeers here.        *)

\* The longest peer list drawn from all lists over PeerAddrs.
MaxPeers == 3

\* At most this many socket events (connect, error, data) are followed.
MaxSocketEvents == 2

\* The { ip, port } objects parseAnnounceResp makes: ip as its four bytes.
PeerAddrs == { [ip |-> << 10, 0, 0, k >>, port |-> p] : k \in 1..2, p \in {6881, 6882} }

\* A tracker response with 31 distinct peers (206 bytes).
ManyPeers == [i \in 1..31 |-> [ip |-> << 10, 0, 1, i >>, port |-> 6881]]

PeerLists == UNION { [1..n -> PeerAddrs] : n \in 0..MaxPeers } \cup { ManyPeers }

\* download(peer) without line 15: no "error" listener on the socket.
downloadNoErrorListener(peer) ==
    [addr |-> peer, state |-> "connecting", onError |-> "none", written |-> << >>]

\* download(peer): the socket it leaves behind, connecting to peer.port,
\* peer.ip, with console.log as its "error" listener and nothing written.
download(peer) ==
    [addr |-> peer, state |-> "connecting", onError |-> "console.log",
     written |-> << >>]

DownloadInit ==
    /\ TrackerIdle
    /\ PureOff
    /\ dlpc = "waiting"
    /\ peers \in PeerLists
    /\ sockets = << >>
    /\ events = 0

\* The callback runs: one download call per element of peers, in order.
peersCallback ==
    /\ dlpc = "waiting"
    /\ crashed = ""
    /\ sockets' = [i \in 1..Len(peers) |-> download(peers[i])]
    /\ dlpc' = "opened"
    /\ UNCHANGED << peers, events, crashed, trackerVars, pureVars >>

SocketEvent == dlpc = "opened" /\ crashed = "" /\ events < MaxSocketEvents

\* The connection is established: the connect callback (lines 16-18) runs;
\* its body is a comment, nothing is written.
socketConnect(i) ==
    /\ SocketEvent
    /\ sockets[i].state = "connecting"
    /\ sockets' = [sockets EXCEPT ![i].state = "connected"]
    /\ events' = events + 1
    /\ UNCHANGED << dlpc, peers, crashed, trackerVars, pureVars >>

\* The socket emits "error" (refused, reset): the socket is destroyed and
\* its "error" listener runs; with no listener the error is thrown and ends
\* the process.
socketError(i) ==
    /\ SocketEvent
    /\ sockets[i].state \in {"connecting", "connected"}
    /\ sockets' = [sockets EXCEPT ![i].state = "closed"]
    /\ events' = events + 1
    /\ crashed' = IF sockets[i].onError = "none" THEN "socket error" ELSE crashed
    /\ UNCHANGED << dlpc, peers, trackerVars, pureVars >>

\* The socket emits "data": the listener (lines 19-21) does nothing.
socketData(i) ==
    /\ SocketEvent
    /\ sockets[i].state = "connected"
    /\ events' = events + 1
    /\ UNCHANGED << dlpc, peers, sockets, crashed, trackerVars, pureVars >>

connectEvent == \E i \in DOMAIN sockets : socketConnect(i)
errorEvent == \E i \in DOMAIN sockets : socketError(i)
dataEvent == \E i \in DOMAIN sockets : socketData(i)

DownloadNext == peersCallback \/ connectEvent \/ errorEvent \/ dataEvent

DownloadSpec == DownloadInit /\ [][DownloadNext]_vars

\* The sockets that are connecting or connected.
OpenSockets == { i \in DOMAIN sockets : sockets[i].state \in {"connecting", "connected"} }

\* C11: the number of peer connections open at the same time never exceeds
\* the concurrency limit of 30.
C11_ConcurrencyBounded ==
    Cardinality(OpenSockets) <= 30

\* C12: at most one peer connection is opened per distinct (ip, port).
C12_OnePerAddress ==
    \A i, j \in DOMAIN sockets : i # j => sockets[i].addr # sockets[j].addr

\* C13: an error on one peer socket closes that socket only: the process
\* goes on (no uncaught error), every other socket, the peer list and the
\* coordinator are as before.
C13_ErrorDropsOnlyThatPeer ==
    [][ \A i \in DOMAIN sockets :
          (sockets[i].state # "closed" /\ sockets'[i].state = "closed")
          => /\ crashed' = ""
             /\ DOMAIN sockets' = DOMAIN sockets
             /\ \A j \in DOMAIN sockets \ {i} : sockets'[j] = sockets[j]
             /\ peers' = peers
             /\ dlpc' = dlpc ]_vars

\* C13 witness: one socket was closed by an error while another one is
\* connected, and the process is running.
C13_Witness ==
    /\ crashed = ""
    /\ \E i, j \in DOMAIN sockets :
        /\ i # j
        /\ sockets[i].state = "closed"
        /\ sockets[j].state = "connected"

\* C14: on every connected socket the first thing written is the 68-byte
\* handshake.
C14_HandshakeFirst ==
    \A i \in DOMAIN sockets :
        sockets[i].state = "connected"
        => (sockets[i].written # << >> /\ Len(sockets[i].written[1]) = 68)

(* ----------------------- builders and parsers ------------------------- *)
(* The functions of the message module (tracker.js lines 242-404), of      *)
(* torrent-parser.js and the tracker's buildAnnounceReq and                *)
(* parseAnnounceResp, applied to arguments drawn from small sets: call     *)
(* holds the function and its arguments, result what it returned or threw. *)

\* The longest block or bitfield given to buildPiece and buildBitfield.
MaxBlock == 3

\* The most bytes an announce response holds after its 20-byte header.
MaxTail == 13

\* buf.writeUInt8(v, off).
WriteUInt8(buf, v, off) ==
    [i \in DOMAIN buf |-> IF i = off + 1 THEN v % 256 ELSE buf[i]]

\* buf.writeUInt16BE(v, off).
WriteUInt16BE(buf, v, off) ==
    [i \in DOMAIN buf |->
        IF i = off + 1 THEN (v \div 256) % 256
        ELSE IF i = off + 2 THEN v % 256 ELSE buf[i]]

\* buf.readUInt16BE(off).
ReadUInt16BE(buf, off) == buf[off + 1] * 256 + buf[off + 2]

\* src.copy(buf, off): as many bytes of src as fit into buf from off.
Copy(src, buf, off) ==
    [i \in DOMAIN buf |->
        IF i > off /\ i <= off + Len(src) THEN src[i - off] ELSE buf[i]]

\* Blocks and bitfields: every byte string over {0, 255} up to MaxBlock.
Blocks == UNION { [1..n -> {0, 255}] : n \in 0..MaxBlock }

\* Torrents, each with the SHA1 its info dictionary hashes to.
Torrents == { [hash |-> [i \in 1..20 |-> k]] : k \in {17, 34} }

\* torrentParser.infoHash: line 24 evaluates bencode, which torrent-parser.js
\* never declares (it requires btparse as decode): a ReferenceError on
\* every call.
infoHash(torrent) == Throw("infoHash")

\* buildHandshake: allocates 68 zero bytes, writes pstrlen, pstr and the
\* reserved bytes, then calls torrentParser.infoHash, which throws; were it
\* to return, line 275 evaluates util, which the module never declares.
buildHandshake(torrent) ==
    LET hash == infoHash(torrent)
    IN  IF ~hash.ok THEN hash ELSE Throw("buildHandshake")

buildKeepAlive == Ok(Alloc(4))

buildChoke == Ok(WriteUInt8(WriteUInt32BE(Alloc(5), 1, 0), 0, 4))

buildUnChoke == Ok(WriteUInt8(WriteUInt32BE(Alloc(5), 1, 0), 1, 4))

buildInterested == Ok(WriteUInt8(WriteUInt32BE(Alloc(5), 1, 0), 2, 4))

buildUninterested == Ok(WriteUInt8(WriteUInt32BE(Alloc(5), 1, 0), 3, 4))

buildHave(payload) ==
    LET b1 == WriteUInt32BE(Alloc(9), 5, 0)
        b2 == WriteUInt8(b1, 4, 4)
    IN  Ok(WriteUInt32BE(b2, payload, 5))

\* buildBitfield: after Buffer.alloc(14), line 342 evaluates payload.length,
\* but the parameter is named bitfield and no payload is in scope: a
\* ReferenceError on every call.
buildBitfield(bitfield) == Throw("buildBitfield")

buildRequest(payload) ==
    LET b1 == WriteUInt32BE(Alloc(17), 13, 0)
        b2 == WriteUInt8(b1, 6, 4)
        b3 == WriteUInt32BE(b2, payload.index, 5)
        b4 == WriteUInt32BE(b3, payload.begin, 9)
    IN  Ok(WriteUInt32BE(b4, payload.length, 13))

buildPiece(payload) ==
    LET b1 == WriteUInt32BE(Alloc(Len(payload.block) + 13), Len(payload.block) + 9, 0)
        b2 == WriteUInt8(b1, 7, 4)
        b3 == WriteUInt32BE(b2, payload.index, 5)
        b4 == WriteUInt32BE(b3, payload.begin, 9)
    IN  Ok(Copy(payload.block, b4, 13))

buildCancel(payload) ==
    LET b1 == WriteUInt32BE(Alloc(17), 13, 0)
        b2 == WriteUInt8(b1, 8, 4)
        b3 == WriteUInt32BE(b2, payload.index, 5)
        b4 == WriteUInt32BE(b3, payload.begin, 9)
    IN  Ok(WriteUInt32BE(b4, payload.length, 13))

buildPort(payload) ==
    LET b1 == WriteUInt32BE(Alloc(7), 3, 0)
        b2 == WriteUInt8(b1, 9, 4)
    IN  Ok(WriteUInt16BE(b2, payload, 5))

\* group(iterable, 6) of parseAnnounceResp: slices of 6 bytes, the last one
\* shorter when the length is no multiple of 6.
group(bytes) ==
    [k \in 1..((Len(bytes) + 5) \div 6) |->
        SubSeq(bytes, 6 * (k - 1) + 1,
               IF 6 * k <= Len(bytes) THEN 6 * k ELSE Len(bytes))]

\* parseAnnounceResp on the bytes of a response: action, transactionId,
\* leechers (read at 8) and seeders (read at 12), each a RangeError when the
\* response ends before the field does; then one peer per group of
\* resp.slice(20), readUInt16BE(4) being a RangeError on a group shorter
\* than 6 bytes.  The object has no interval.
parseAnnounceRespBytes(resp) ==
    IF Len(resp) < 16 THEN Throw("parseAnnounceResp")
    ELSE LET groups == group(SubSeq(resp, 21, Len(resp)))
         IN  IF \E k \in DOMAIN groups : Len(groups[k]) < 6
             THEN Throw("parseAnnounceResp")
             ELSE Ok([action |-> ReadUInt32BE(resp, 0),
                      transactionId |-> ReadUInt32BE(resp, 4),
                      leechers |-> ReadUInt32BE(resp, 8),
                      seeders |-> ReadUInt32BE(resp, 12),
                      peers |-> [k \in DOMAIN groups |->
                          [ip |-> SubSeq(groups[k], 1, 4),
                           port |-> ReadUInt16BE(groups[k], 4)]]])

\* Announce responses: action 1, a transaction id, interval, leechers and
\* seeders, then up to MaxTail bytes of peers (byte i after the header is
\* base + i), cut at every length from 16 bytes on.
AnnounceHeader(tx, interval, leechers, seeders) ==
    LET b1 == WriteUInt32BE(Alloc(20), 1, 0)
        b2 == WriteUInt32BE(b1, tx, 4)
        b3 == WriteUInt32BE(b2, interval, 8)
        b4 == WriteUInt32BE(b3, leechers, 12)
    IN  WriteUInt32BE(b4, seeders, 16)

AnnounceResponses ==
    { SubSeq(AnnounceHeader(tx, interval, 3, seeders)
                \o [i \in 1..MaxTail |-> base + i], 1, n) :
        tx \in TxIds, interval \in {1800, 900}, seeders \in {5, 70000},
        base \in {10, 200}, n \in 16..(20 + MaxTail) }

PureInit == TrackerIdle /\ DlOff /\ PureOff

\* A call leaves everything but call and result as it was.
PureFrame == UNCHANGED << trackerVars, crashed, dlVars >>

callHandshake ==
    \E t \in Torrents :
        /\ call' = [fn |-> "buildHandshake", args |-> t]
        /\ result' = buildHandshake(t)
        /\ PureFrame

callKeepAlive ==
    /\ call' = [fn |-> "buildKeepAlive", args |-> << >>]
    /\ result' = buildKeepAlive
    /\ PureFrame

callChoke ==
    /\ call' = [fn |-> "buildChoke", args |-> << >>]
    /\ result' = buildChoke
    /\ PureFrame

callUnChoke ==
    /\ call' = [fn |-> "buildUnChoke", args |-> << >>]
    /\ result' = buildUnChoke
    /\ PureFrame

callInterested ==
    /\ call' = [fn |-> "buildInterested", args |-> << >>]
    /\ result' = buildInterested
    /\ PureFrame

callUninterested ==
    /\ call' = [fn |-> "buildUninterested", args |-> << >>]
    /\ result' = buildUninterested
    /\ PureFrame

callHave ==
    \E index \in {0, 1, 258} :
        /\ call' = [fn |-> "buildHave", args |-> index]
        /\ result' = buildHave(index)
        /\ PureFrame

callBitfield ==
    \E b \in Blocks :
        /\ call' = [fn |-> "buildBitfield", args |-> b]
        /\ result' = buildBitfield(b)
        /\ PureFrame

callRequest ==
    \E payload \in [index : {0, 258}, begin : {0, 16384}, length : {16384}] :
        /\ call' = [fn |-> "buildRequest", args |-> payload]
        /\ result' = buildRequest(payload)
        /\ PureFrame

callPiece ==
    \E payload \in [index : {0, 258}, begin : {0, 16384}, block : Blocks] :
        /\ call' = [fn |-> "buildPiece", args |-> payload]
        /\ result' = buildPiece(payload)
        /\ PureFrame

callCancel ==
    \E payload \in [index : {0, 258}, begin : {0, 16384}, length : {16384}] :
        /\ call' = [fn |-> "buildCancel", args |-> payload]
        /\ result' = buildCancel(payload)
        /\ PureFrame

callPort ==
    \E port \in {6881, 6889} :
        /\ call' = [fn |-> "buildPort", args |-> port]
        /\ result' = buildPort(port)
        /\ PureFrame

\* buildAnnounceReq on the connResp parseConnResp makes of a connect
\* response of at least 8 bytes.
callAnnounceReq ==
    \E d \in { x \in Datagrams : x.action = 0 /\ x.len >= 8 } :
        /\ call' = [fn |-> "buildAnnounceReq", args |-> d]
        /\ result' = buildAnnounceReq(parseConnResp(d).val)
        /\ PureFrame

callParseAnnounceResp ==
    \E resp \in AnnounceResponses :
        /\ call' = [fn |-> "parseAnnounceResp", args |-> resp]
        /\ result' = parseAnnounceRespBytes(resp)
        /\ PureFrame

PureNext ==
    \/ callHandshake \/ callKeepAlive \/ callChoke \/ callUnChoke
    \/ callInterested \/ callUninterested \/ callHave \/ callBitfield
    \/ callRequest \/ callPiece \/ callCancel \/ callPort
    \/ callAnnounceReq \/ callParseAnnounceResp

PureSpec == PureInit /\ [][PureNext]_vars

\* "BitTorrent protocol" in ASCII.
Pstr ==
    << 66, 105, 116, 84, 111, 114, 114, 101, 110, 116, 32,
       112, 114, 111, 116, 111, 99, 111, 108 >>

\* C15: buildHandshake returns 68 bytes: 19, "BitTorrent protocol", eight
\* zero bytes, the torrent's info_hash at 28..47 and the peer_id at 48..67.
C15_HandshakeLayout ==
    call.fn = "buildHandshake"
    => /\ result.ok
       /\ Len(result.val) = 68
       /\ result.val[1] = 19
       /\ SubSeq(result.val, 2, 20) = Pstr
       /\ \A i \in 21..28 : result.val[i] = 0
       /\ SubSeq(result.val, 29, 48) = call.args.hash

MessageBuilders ==
    { "buildKeepAlive", "buildChoke", "buildUnChoke", "buildInterested",
      "buildUninterested", "buildHave", "buildBitfield", "buildRequest",
      "buildPiece", "buildCancel", "buildPort" }

\* C16: every message builder returns a message whose 4-byte big-endian
\* length prefix is its size minus 4; a bitfield of n bytes gives 5 + n bytes
\* with prefix n + 1 and id 5, a block of n bytes gives 13 + n bytes with
\* prefix n + 9.
C16_LengthPrefixFraming ==
    call.fn \in MessageBuilders
    => /\ result.ok
       /\ ReadUInt32BE(result.val, 0) = Len(result.val) - 4
       /\ call.fn = "buildBitfield"
          => /\ Len(result.val) = 5 + Len(call.args)
             /\ ReadUInt32BE(result.val, 0) = Len(call.args) + 1
             /\ result.val[5] = 5
       /\ call.fn = "buildPiece"
          => /\ Len(result.val) = 13 + Len(call.args.block)
             /\ ReadUInt32BE(result.val, 0) = Len(call.args.block) + 9

\* C17: buildAnnounceReq returns 98 bytes, every one of them a written
\* byte: action 1 at 8..11, downloaded 0 at 56..63, uploaded 0 at 72..79,
\* event 0 at 80..83, ip 0 at 84..87, num_want -1 at 92..95.
C17_AnnounceReqLayout ==
    call.fn = "buildAnnounceReq"
    => /\ result.ok
       /\ Len(result.val) = 98
       /\ \A i \in 1..98 : result.val[i] \in 0..255
       /\ ReadUInt32BE(result.val, 8) = 1
       /\ \A i \in 57..64 : result.val[i] = 0
       /\ \A i \in 73..80 : result.val[i] = 0
       /\ ReadUInt32BE(result.val, 80) = 0
       /\ ReadUInt32BE(result.val, 84) = 0
       /\ \A i \in 93..96 : result.val[i] = 255

\* C18: for a response of at least 20 bytes parseAnnounceResp returns
\* interval (bytes 8..11), leechers (12..15), seeders (16..19) and one peer
\* per complete 6-byte group after byte 20, in order; an incomplete last
\* group gives no peer and no error.
C18_AnnounceRespFields ==
    (call.fn = "parseAnnounceResp" /\ Len(call.args) >= 20)
    => /\ result.ok
       /\ "interval" \in DOMAIN result.val
       /\ result.val.interval = ReadUInt32BE(call.args, 8)
       /\ result.val.leechers = ReadUInt32BE(call.args, 12)
       /\ result.val.seeders = ReadUInt32BE(call.args, 16)
       /\ Len(result.val.peers) = (Len(call.args) - 20) \div 6
       /\ \A k \in DOMAIN result.val.peers :
            /\ result.val.peers[k].ip
                 = SubSeq(call.args, 20 + 6 * (k - 1) + 1, 20 + 6 * (k - 1) + 4)
            /\ result.val.peers[k].port
                 = ReadUInt16BE(call.args, 20 + 6 * (k - 1) + 4)

\* C20: in every step of one udpSend call retryCount stays or grows by one,
\* and grows only when an armed timer expired; it never exceeds maxRetries,
\* at most maxRetries + 1 datagrams were sent, and at most one timer is
\* armed.
C20_RetryBudget ==
    [][ /\ retryCount' \in {retryCount, retryCount + 1}
        /\ retryCount' = retryCount + 1
           => \E t \in timers : timers' = timers \ {t}
        /\ retryCount' <= maxRetries
        /\ Len(wire') <= maxRetries + 1
        /\ Len(wire') = IF pc' = "running" THEN retryCount' + 1 ELSE 0
        /\ Cardinality(timers') <= 1 ]_vars

\* C20 witness: all maxRetries + 1 transmissions are out and the last timer
\* is armed.
C20_Witness ==
    /\ retryCount = maxRetries
    /\ Len(wire) = maxRetries + 1
    /\ Cardinality(timers) = 1

=============================================================================
